---- MODULE Spec2Model ----
(***************************************************************************)
(* Booking concurrency control of the resort backend                       *)
(* (src/routes/bookings.py: create_booking and the lease lock it uses,     *)
(* update_booking, delete_booking, release_occupancies_endpoint; the       *)
(* startup sweep of src/main.py).                                          *)
(*                                                                         *)
(* The store is MongoDB: three collections (bookings, occupancies, locks). *)
(* Every awaited store call of create_booking is one atomic step; requests *)
(* interleave between steps.  Time is kept relative: a lock record carries *)
(* expire_at - utcnow(), a waiting acquire carries what is left of its     *)
(* timeout window; Tick lets time pass.                                    *)
(***************************************************************************)
EXTENDS Integers, Sequences, FiniteSets, TLC

\* ---------------------------------------------------------------- bounds
NumReqs == 2
MaxDay == 4
MaxCalls == 3

\* ------------------------------------------------------ program constants
TTL_SECONDS == 30
TIMEOUT == 5

Reqs == 1..NumReqs
\* The date texts of a request.  Text 0 is one strptime cannot parse (the
\* empty string); texts 1..MaxDay are the zero-padded spellings of the days
\* 1..MaxDay, whose order as texts is their order as dates; text Unpadded is
\* day 1 spelt without padding ("2024-1-01"), which strptime accepts and
\* which as a text is greater than every padded spelling.
Unpadded == MaxDay + 1

DayTexts == 0..Unpadded
AccInputs == {<<"r1">>, <<"r2">>}
\* guests of the request: 0 stands for no guest count supplied.
GuestInputs == {0, 2, 6}

\* db["rooms"] and db["accommodations"], read by the capacity check.
rooms == {[_id |-> <<"string", "r1">>, capacity |-> 4],
          [_id |-> <<"string", "r2">>, capacity |-> 4]}

accommodations == {}

VARIABLES
    has_client,   \* request.app.state.db_client offers start_session
    req,          \* the BookingCreateRequest of each request (NoReq before it arrives)
    pc,           \* the await each request stands before
    resp,         \* the result the request raises or returns
    lock_owner,   \* local lock_owner: 0 is None, otherwise the owner token
    wait,         \* seconds left of the acquire timeout window
    occ_idx,      \* index of the next document of the ordered insert_many
    bookings,     \* db["bookings"]
    occupancies,  \* db["occupancies"]
    locks,        \* db["locks"]
    events,       \* payloads handed to publish_event
    released,     \* what the release_lock call of line 280 did: "no" before it,
                  \* "deleted" / "noop" after it, "raised" when line 281 caught it
    txn_exc,      \* the exception the transaction block of 210-234 left with
    del_pc,       \* the await each delete_booking call stands before
    admin_resp,   \* the response of the last update / delete / release call
    calls         \* how many update / delete / release calls have been made

vars == <<has_client, req, pc, resp, lock_owner, wait, occ_idx,
          bookings, occupancies, locks, events, released, txn_exc,
          del_pc, admin_resp, calls>>

NoReq == [accommodation_id |-> <<>>, check_in |-> <<"string", 0>>,
          check_out |-> <<"string", 0>>, guests |-> 0]

\* ------------------------------------------------------------ BSON values
\* A stored or queried value carries its BSON type: the request's date texts
\* are strings, strptime yields dates.
Str(d) == <<"string", d>>

Date(d) == <<"date", d>>

Parseable(s) == s[2] # 0

\* datetime.strptime(s, "%Y-%m-%d") of lines 186-187.
strptime(s) == Date(IF s[2] = Unpadded THEN 1 ELSE s[2])

\* Python's >= on two date texts of the request (line 127).
StrGe(a, b) == a[2] >= b[2]

\* MongoDB's $lt / $gt of a query: a field of another BSON type than the
\* query value never matches (type bracketing).
BsonLt(field, value) == field[1] = value[1] /\ field[2] < value[2]

BsonGt(field, value) == field[1] = value[1] /\ field[2] > value[2]

Elems(s) == {s[i] : i \in 1..Len(s)}

\* ------------------------------------------------------ create_booking data
\* Variant of NightsFrom: the loop runs while d <= end_date.
RECURSIVE NightsFrom_Inclusive(_, _)
NightsFrom_Inclusive(d, end_date) ==
    IF d[2] <= end_date[2]
    THEN <<d>> \o NightsFrom_Inclusive(Date(d[2] + 1), end_date)
    ELSE <<>>

\* Lines 194-201: the nights check_in .. check_out - 1, by the while loop.
RECURSIVE NightsFrom(_, _)
NightsFrom(d, end_date) ==
    IF d[2] < end_date[2]
    THEN <<d>> \o NightsFrom(Date(d[2] + 1), end_date)
    ELSE <<>>

nights(r) == NightsFrom(strptime(req[r].check_in), strptime(req[r].check_out))

\* Variant of lock_key: one key for every reservation.
lock_key_Global(r) == <<"accom">>

\* Line 206: the key names the resources and the date range.
lock_key(r) == <<"accom", req[r].accommodation_id,
                 strptime(req[r].check_in), strptime(req[r].check_out)>>

\* The inserted booking document: booking.dict() with the list of resources;
\* check_in / check_out stay the request's texts, no status field is set.
booking_dict(r) == [id |-> r,
                    accommodation_id |-> req[r].accommodation_id,
                    check_in |-> req[r].check_in,
                    check_out |-> req[r].check_out,
                    status |-> "none"]

occ_doc(r, i) == [accommodation_id |-> req[r].accommodation_id,
                  date |-> nights(r)[i],
                  booking_id |-> r]

occ_docs(r) == {occ_doc(r, i) : i \in 1..Len(nights(r))}

\* The unique index of the occupancy ledger: one record per (resource, night).
UniqueViolation(doc, occs) ==
    \E e \in occs : /\ e.date = doc.date
                    /\ Elems(e.accommodation_id) \cap Elems(doc.accommodation_id) # {}

\* The overlap query of lines 252-257.
overlap(r) ==
    \E b \in bookings :
        /\ b.accommodation_id = req[r].accommodation_id
        /\ b.status # "cancelled"
        /\ BsonLt(b.check_in, strptime(req[r].check_out))
        /\ BsonGt(b.check_out, strptime(req[r].check_in))

\* find_one({"_id": v}): the documents whose _id has the BSON type and the
\* value of v.
find_one(coll, v) == {x \in coll : x._id[1] = v[1] /\ x._id[2] = v[2]}

\* Lines 141-170 for a request that names guests: the room and accommodation
\* lookups by _id are made with booking_dict["accommodation_id"], the list of
\* resources (ObjectId() of a list raises, line 150 takes it); total_cap is
\* the capacity of the document found and stays 0 when none is found.
total_cap(q) ==
    LET room == find_one(rooms, <<"array", q.accommodation_id>>)
        acc == find_one(accommodations, <<"array", q.accommodation_id>>)
    IN  IF room # {} THEN (CHOOSE x \in room : TRUE).capacity
        ELSE IF acc # {} THEN (CHOOSE x \in acc : TRUE).capacity
        ELSE 0

\* Variant of CapacityRejects: line 176 never rejects.
CapacityRejects_Never(q) == FALSE

CapacityRejects(q) == q.guests > 0 /\ q.guests > total_cap(q)

\* Variant of Validate: the parsed dates are not compared (no line 191).
Validate_TextOrderOnly(q) ==
    IF StrGe(q.check_in, q.check_out) THEN "validation"
    ELSE IF CapacityRejects(q) THEN "capacity"
    ELSE IF ~Parseable(q.check_in) \/ ~Parseable(q.check_out) THEN "validation"
    ELSE "ok"

\* Lines 126-192 in the order the code takes them.
Validate(q) ==
    IF StrGe(q.check_in, q.check_out) THEN "validation"
    ELSE IF CapacityRejects(q) THEN "capacity"
    ELSE IF ~Parseable(q.check_in) \/ ~Parseable(q.check_out) THEN "validation"
    ELSE IF strptime(q.check_in)[2] >= strptime(q.check_out)[2] THEN "validation"
    ELSE "ok"

\* The HTTP status of each result (lines 128, 177, 189, 192: 400; lines 228,
\* 250, 259, 276: 409; an exception nothing catches: 500).
status_code(x) ==
    CASE x = "created" -> 200
      [] x \in {"validation", "capacity"} -> 400
      [] x \in {"conflict", "busy"} -> 409
      [] OTHER -> 500

\* --------------------------------------------------------- lease lock manager
\* (resort_backend.lib.locks, imported at line 11.)  A record carries
\* expire_at relative to the present: below 0 its expiry has passed.
\* Variant of Live: a record never stops counting as held.
Live_Forever(l) == TRUE

Live(l) == l.expire_at >= 0

\* Variant of HeldLive: acquire does not look at the record in place.
HeldLive_Unchecked(key) == FALSE

HeldLive(key) == \E l \in locks : l.key = key /\ Live(l)

\* The store after acquire succeeded: one atomic conditional upsert puts the
\* owner's record in the place of an absent or expired one.
acquire_lock(key, owner, ttl_seconds) ==
    {l \in locks : l.key # key}
        \cup {[key |-> key, owner |-> owner, expire_at |-> ttl_seconds]}

\* The store after release: the record of the key goes only when its owner
\* token is the one presented; otherwise nothing changes.
release_lock(key, owner) == {l \in locks : ~(l.key = key /\ l.owner = owner)}

\* uuid4().hex of line 245: a token no other request has.
uuid4(r) == r

\* Lines 284-288: the payload of request r is handed to publish_event; what
\* became of the call ("sent", or "raised" when the publisher failed and line
\* 287 took it) is appended to the calls made for r.
publish_event(r, outcome) == [events EXCEPT ![r] = Append(@, outcome)]

\* The ids the booking endpoints are called with: the ids of the requests'
\* bookings, 0 for a text that is no ObjectId, NumReqs + 1 for the ObjectId of
\* no booking.
BookingIds == 0..(NumReqs + 1)

NoResp == [op |-> "none", id |-> 0, status |-> 0, n |-> 0]

\* ----------------------------------------------------------------- Init
Init ==
    /\ has_client \in BOOLEAN
    /\ req = [r \in Reqs |-> NoReq]
    /\ pc = [r \in Reqs |-> "idle"]
    /\ resp = [r \in Reqs |-> "none"]
    /\ lock_owner = [r \in Reqs |-> 0]
    /\ wait = [r \in Reqs |-> 0]
    /\ occ_idx = [r \in Reqs |-> 0]
    /\ bookings = {}
    /\ occupancies = {}
    /\ locks = {}
    /\ events = [r \in Reqs |-> <<>>]
    /\ released = [r \in Reqs |-> "no"]
    /\ txn_exc = [r \in Reqs |-> "none"]
    /\ del_pc = [b \in BookingIds |-> "idle"]
    /\ admin_resp = NoResp
    /\ calls = 0

\* ------------------------------------------------------------- the handler
\* Lines 103-206 and the path selection of 209 / 235-240: validation,
\* capacity check, night expansion, then the transaction when the client
\* offers sessions and the lease lock otherwise.
Begin(r) ==
    /\ pc[r] = "idle"
    /\ \E a \in AccInputs, ci \in DayTexts, co \in DayTexts, g \in GuestInputs :
        LET q == [accommodation_id |-> a, check_in |-> Str(ci),
                  check_out |-> Str(co), guests |-> g]
        IN  /\ req' = [req EXCEPT ![r] = q]
            /\ IF Validate(q) # "ok"
               THEN /\ pc' = [pc EXCEPT ![r] = "done"]
                    /\ resp' = [resp EXCEPT ![r] = Validate(q)]
                    /\ wait' = wait
               ELSE IF has_client
               THEN /\ pc' = [pc EXCEPT ![r] = "txn"]
                    /\ UNCHANGED <<resp, wait>>
               ELSE /\ pc' = [pc EXCEPT ![r] = "acquire"]
                    /\ wait' = [wait EXCEPT ![r] = TIMEOUT]
                    /\ resp' = resp
    /\ UNCHANGED <<txn_exc, del_pc, admin_resp, calls, has_client, lock_owner, occ_idx, bookings, occupancies,
                   locks, events, released>>

\* The same with a store call of the capacity check (143-163) raising: line
\* 180 takes it and the request goes on without the capacity check.
ValidateUnchecked(q) == Validate([q EXCEPT !.guests = 0])

BeginLookupError(r) ==
    /\ pc[r] = "idle"
    /\ \E a \in AccInputs, ci \in DayTexts, co \in DayTexts, g \in GuestInputs \ {0} :
        LET q == [accommodation_id |-> a, check_in |-> Str(ci),
                  check_out |-> Str(co), guests |-> g]
        IN  /\ ~StrGe(q.check_in, q.check_out)
            /\ req' = [req EXCEPT ![r] = q]
            /\ IF ValidateUnchecked(q) # "ok"
               THEN /\ pc' = [pc EXCEPT ![r] = "done"]
                    /\ resp' = [resp EXCEPT ![r] = ValidateUnchecked(q)]
                    /\ wait' = wait
               ELSE IF has_client
               THEN /\ pc' = [pc EXCEPT ![r] = "txn"]
                    /\ UNCHANGED <<resp, wait>>
               ELSE /\ pc' = [pc EXCEPT ![r] = "acquire"]
                    /\ wait' = [wait EXCEPT ![r] = TIMEOUT]
                    /\ resp' = resp
    /\ UNCHANGED <<txn_exc, del_pc, admin_resp, calls, has_client, lock_owner, occ_idx, bookings,
                   occupancies, locks, events, released>>

\* Lines 210-226 when nothing fails: the transaction commits the booking and
\* all its occupancy documents at once; line 283-289 follow.
TxnCommit(r) ==
    /\ pc[r] = "txn"
    /\ \A d \in occ_docs(r) : ~UniqueViolation(d, occupancies)
    /\ bookings' = bookings \cup {booking_dict(r)}
    /\ occupancies' = occupancies \cup occ_docs(r)
    /\ pc' = [pc EXCEPT ![r] = "done"]
    /\ resp' = [resp EXCEPT ![r] = "created"]
    /\ events' = publish_event(r, "sent")
    /\ UNCHANGED <<txn_exc, del_pc, admin_resp, calls, has_client, req, lock_owner, wait, occ_idx, locks, released>>

\* Line 225 inside the transaction hitting the unique index: insert_many
\* raises BulkWriteError, a PyMongoError that is no DuplicateKeyError, so
\* line 229 takes it; the transaction is aborted and created = None.
TxnBulkWriteError(r) ==
    /\ pc[r] = "txn"
    /\ \E d \in occ_docs(r) : UniqueViolation(d, occupancies)
    /\ pc' = [pc EXCEPT ![r] = "acquire"]
    /\ wait' = [wait EXCEPT ![r] = TIMEOUT]
    /\ txn_exc' = [txn_exc EXCEPT ![r] = "BulkWriteError"]
    /\ UNCHANGED <<del_pc, admin_resp, calls, has_client, req, resp, lock_owner, occ_idx, bookings,
                   occupancies, locks, events, released>>

\* Variant of TxnTransient: the store error is raised to the caller.
TxnTransient_Surfaced(r) ==
    /\ pc[r] = "txn"
    /\ pc' = [pc EXCEPT ![r] = "done"]
    /\ resp' = [resp EXCEPT ![r] = "error"]
    /\ txn_exc' = [txn_exc EXCEPT ![r] = "PyMongoError"]
    /\ UNCHANGED <<del_pc, admin_resp, calls, has_client, req, wait, lock_owner, occ_idx, bookings,
                   occupancies, locks, events, released>>

\* Lines 229-234: transactions unsupported (a standalone server) or any other
\* failure before the commit: nothing was written, created = None.
TxnTransient(r) ==
    /\ pc[r] = "txn"
    /\ pc' = [pc EXCEPT ![r] = "acquire"]
    /\ wait' = [wait EXCEPT ![r] = TIMEOUT]
    /\ txn_exc' = [txn_exc EXCEPT ![r] = "PyMongoError"]
    /\ UNCHANGED <<del_pc, admin_resp, calls, has_client, req, resp, lock_owner, occ_idx, bookings,
                   occupancies, locks, events, released>>

\* Variant of Acquire: the token is handed out whoever holds the key.
Acquire_Unguarded(r) ==
    /\ pc[r] = "acquire"
    /\ locks' = acquire_lock(lock_key(r), uuid4(r), TTL_SECONDS)
    /\ lock_owner' = [lock_owner EXCEPT ![r] = uuid4(r)]
    /\ wait' = [wait EXCEPT ![r] = 0]
    /\ pc' = [pc EXCEPT ![r] = "overlap"]
    /\ UNCHANGED <<txn_exc, del_pc, admin_resp, calls, has_client, req, resp, occ_idx, bookings, occupancies, events, released>>

\* Lines 242-248 with acquire_lock returning the owner token: the key had no
\* record, or one whose expiry has passed.
Acquire(r) ==
    /\ pc[r] = "acquire"
    /\ ~HeldLive(lock_key(r))
    /\ locks' = acquire_lock(lock_key(r), uuid4(r), TTL_SECONDS)
    /\ lock_owner' = [lock_owner EXCEPT ![r] = uuid4(r)]
    /\ wait' = [wait EXCEPT ![r] = 0]
    /\ pc' = [pc EXCEPT ![r] = "overlap"]
    /\ UNCHANGED <<txn_exc, del_pc, admin_resp, calls, has_client, req, resp, occ_idx, bookings, occupancies, events, released>>

\* Variant of AcquireBusy: the missing token is not looked at and the request
\* goes on into the critical section.
AcquireBusy_Proceeds(r) ==
    /\ pc[r] = "acquire"
    /\ wait[r] = 0
    /\ HeldLive(lock_key(r))
    /\ pc' = [pc EXCEPT ![r] = "overlap"]
    /\ UNCHANGED <<txn_exc, del_pc, admin_resp, calls, has_client, req, resp, lock_owner, wait, occ_idx, bookings,
                   occupancies, locks, events, released>>

\* Lines 249-250: acquire_lock found the key held by a live owner until the
\* timeout window was over and returned no token.
AcquireBusy(r) ==
    /\ pc[r] = "acquire"
    /\ wait[r] = 0
    /\ HeldLive(lock_key(r))
    /\ pc' = [pc EXCEPT ![r] = "done"]
    /\ resp' = [resp EXCEPT ![r] = "busy"]
    /\ UNCHANGED <<txn_exc, del_pc, admin_resp, calls, has_client, req, lock_owner, wait, occ_idx, bookings,
                   occupancies, locks, events, released>>

\* Lines 252-259: the overlap re-check under the lock.
CheckOverlap(r) ==
    /\ pc[r] = "overlap"
    /\ IF overlap(r)
       THEN /\ resp' = [resp EXCEPT ![r] = "conflict"]
            /\ pc' = [pc EXCEPT ![r] = "release"]
       ELSE /\ resp' = resp
            /\ pc' = [pc EXCEPT ![r] = "insert_booking"]
    /\ UNCHANGED <<txn_exc, del_pc, admin_resp, calls, has_client, req, lock_owner, wait, occ_idx, bookings,
                   occupancies, locks, events, released>>

\* Lines 261-270.  booking_dict carries the _id that the insert_one of line
\* 213 gave it, so when that booking is stored (a transaction that committed
\* and then reported an error) line 261 raises DuplicateKeyError, which
\* nothing before the finally of line 278 catches.
InsertBooking(r) ==
    /\ pc[r] = "insert_booking"
    /\ IF \E b \in bookings : b.id = r
       THEN /\ bookings' = bookings
            /\ resp' = [resp EXCEPT ![r] = "error"]
            /\ occ_idx' = occ_idx
            /\ pc' = [pc EXCEPT ![r] = "release"]
       ELSE /\ bookings' = bookings \cup {booking_dict(r)}
            /\ resp' = resp
            /\ IF Len(nights(r)) > 0
               THEN /\ occ_idx' = [occ_idx EXCEPT ![r] = 1]
                    /\ pc' = [pc EXCEPT ![r] = "insert_occ"]
               ELSE /\ occ_idx' = occ_idx
                    /\ pc' = [pc EXCEPT ![r] = "readback"]
    /\ UNCHANGED <<txn_exc, del_pc, admin_resp, calls, has_client, req, lock_owner, wait, occupancies,
                   locks, events, released>>

\* Variant of InsertOcc: the document is written whether or not the unique
\* index has its (resource, night).
InsertOcc_IgnoresIndex(r) ==
    /\ pc[r] = "insert_occ"
    /\ occupancies' = occupancies \cup {occ_doc(r, occ_idx[r])}
    /\ IF occ_idx[r] = Len(nights(r))
       THEN /\ pc' = [pc EXCEPT ![r] = "readback"]
            /\ occ_idx' = [occ_idx EXCEPT ![r] = 0]
       ELSE /\ pc' = pc
            /\ occ_idx' = [occ_idx EXCEPT ![r] = occ_idx[r] + 1]
    /\ UNCHANGED <<txn_exc, del_pc, admin_resp, calls, has_client, req, resp, lock_owner, wait, bookings,
                   locks, events, released>>

\* Line 273: the ordered insert_many outside a transaction writes its
\* documents one by one and stops at the first the unique index refuses.
InsertOcc(r) ==
    /\ pc[r] = "insert_occ"
    /\ ~UniqueViolation(occ_doc(r, occ_idx[r]), occupancies)
    /\ occupancies' = occupancies \cup {occ_doc(r, occ_idx[r])}
    /\ IF occ_idx[r] = Len(nights(r))
       THEN /\ pc' = [pc EXCEPT ![r] = "readback"]
            /\ occ_idx' = [occ_idx EXCEPT ![r] = 0]
       ELSE /\ pc' = pc
            /\ occ_idx' = [occ_idx EXCEPT ![r] = occ_idx[r] + 1]
    /\ UNCHANGED <<txn_exc, del_pc, admin_resp, calls, has_client, req, resp, lock_owner, wait, bookings,
                   locks, events, released>>

\* Variant of InsertOccRefused: the except clause swallows the failure and
\* the request goes on to line 277.
InsertOccRefused_Swallowed(r) ==
    /\ pc[r] = "insert_occ"
    /\ UniqueViolation(occ_doc(r, occ_idx[r]), occupancies)
    /\ pc' = [pc EXCEPT ![r] = "readback"]
    /\ occ_idx' = [occ_idx EXCEPT ![r] = 0]
    /\ UNCHANGED <<txn_exc, del_pc, admin_resp, calls, has_client, req, resp, lock_owner, wait, bookings,
                   occupancies, locks, events, released>>

\* Line 273 refused by the unique index: insert_many raises, the documents
\* written before the refused one stay.
InsertOccRefused(r) ==
    /\ pc[r] = "insert_occ"
    /\ UniqueViolation(occ_doc(r, occ_idx[r]), occupancies)
    /\ pc' = [pc EXCEPT ![r] = "rollback"]
    /\ occ_idx' = [occ_idx EXCEPT ![r] = 0]
    /\ UNCHANGED <<txn_exc, del_pc, admin_resp, calls, has_client, req, resp, lock_owner, wait, bookings,
                   occupancies, locks, events, released>>

\* Lines 274-276: the except branch deletes the booking and raises 409.
Rollback(r) ==
    /\ pc[r] = "rollback"
    /\ bookings' = {b \in bookings : b.id # r}
    /\ resp' = [resp EXCEPT ![r] = "conflict"]
    /\ pc' = [pc EXCEPT ![r] = "release"]
    /\ UNCHANGED <<txn_exc, del_pc, admin_resp, calls, has_client, req, lock_owner, wait, occ_idx, occupancies,
                   locks, events, released>>

\* Line 277.
ReadBack(r) ==
    /\ pc[r] = "readback"
    /\ resp' = [resp EXCEPT ![r] = "created"]
    /\ pc' = [pc EXCEPT ![r] = "release"]
    /\ UNCHANGED <<txn_exc, del_pc, admin_resp, calls, has_client, req, lock_owner, wait, occ_idx, bookings,
                   occupancies, locks, events, released>>

\* Variant of Release: the record of the key is deleted whoever owns it.
Release_ByKey(r) ==
    /\ pc[r] = "release"
    /\ locks' = {l \in locks : l.key # lock_key(r)}
    /\ released' = [released EXCEPT ![r] = IF locks' = locks THEN "noop" ELSE "deleted"]
    /\ pc' = [pc EXCEPT ![r] = "done"]
    /\ events' = IF resp[r] = "created" THEN publish_event(r, "sent") ELSE events
    /\ UNCHANGED <<txn_exc, del_pc, admin_resp, calls, has_client, req, resp, lock_owner, wait, occ_idx, bookings,
                   occupancies>>

\* Variant of Release: no finally clause, the lock is released only on the
\* way to a created booking.
Release_OnSuccessOnly(r) ==
    /\ pc[r] = "release"
    /\ locks' = IF resp[r] = "created"
                THEN release_lock(lock_key(r), lock_owner[r]) ELSE locks
    /\ released' = [released EXCEPT ![r] = IF locks' = locks THEN "noop" ELSE "deleted"]
    /\ pc' = [pc EXCEPT ![r] = "done"]
    /\ events' = IF resp[r] = "created" THEN publish_event(r, "sent") ELSE events
    /\ UNCHANGED <<txn_exc, del_pc, admin_resp, calls, has_client, req, resp, lock_owner, wait, occ_idx, bookings,
                   occupancies>>

\* Variant of Release: publish_event is called whatever the result is.
Release_PublishAlways(r) ==
    /\ pc[r] = "release"
    /\ locks' = release_lock(lock_key(r), lock_owner[r])
    /\ released' = [released EXCEPT ![r] = IF locks' = locks THEN "noop" ELSE "deleted"]
    /\ pc' = [pc EXCEPT ![r] = "done"]
    /\ events' = publish_event(r, "sent")
    /\ UNCHANGED <<txn_exc, del_pc, admin_resp, calls, has_client, req, resp, lock_owner, wait, occ_idx, bookings,
                   occupancies>>

\* Lines 278-289: the finally clause, then the response (and publish_event
\* for a created booking).
Release(r) ==
    /\ pc[r] = "release"
    /\ locks' = release_lock(lock_key(r), lock_owner[r])
    /\ released' = [released EXCEPT ![r] = IF locks' = locks THEN "noop" ELSE "deleted"]
    /\ pc' = [pc EXCEPT ![r] = "done"]
    /\ events' = IF resp[r] = "created" THEN publish_event(r, "sent") ELSE events
    /\ UNCHANGED <<txn_exc, del_pc, admin_resp, calls, has_client, req, resp, lock_owner, wait, occ_idx, bookings,
                   occupancies>>

\* Time passes, up to the next moment at which a lease reaches its expiry
\* or an acquire window ends (a lease that has reached its expiry passes it).
\* Every lock comes that much closer to its expiry, every waiting acquire
\* to the end of its window.
Timers == {wait[r] : r \in {x \in Reqs : pc[x] = "acquire" /\ wait[x] > 0}}
              \cup {l.expire_at : l \in {x \in locks : x.expire_at > 0}}

Elapse == IF Timers = {} THEN TIMEOUT
          ELSE CHOOSE d \in Timers : \A e \in Timers : d <= e

Tick ==
    /\ \/ Timers # {}
       \/ \E l \in locks : l.expire_at = 0
    /\ locks' = {[l EXCEPT !.expire_at =
                     IF l.expire_at - Elapse < 0 THEN -1 ELSE l.expire_at - Elapse]
                 : l \in locks}
    /\ wait' = [r \in Reqs |->
                  IF wait[r] > Elapse THEN wait[r] - Elapse ELSE 0]
    /\ UNCHANGED <<txn_exc, del_pc, admin_resp, calls, has_client, req, pc, resp, lock_owner, occ_idx, bookings,
                   occupancies, events, released>>

\* --------------------------------------------------------- store failures
\* A store call of the critical section raising something unexpected: the
\* find_one of 252, the insert_one of 261 (nothing written) or the find_one
\* of 277.  No except clause takes it; the finally clause runs and the
\* request answers 500.
StoreError(r) ==
    /\ pc[r] \in {"overlap", "insert_booking", "readback"}
    /\ resp' = [resp EXCEPT ![r] = "error"]
    /\ pc' = [pc EXCEPT ![r] = "release"]
    /\ UNCHANGED <<txn_exc, del_pc, admin_resp, calls, has_client, req, lock_owner, wait, occ_idx, bookings,
                   occupancies, locks, events, released>>

\* Line 273 raising for another reason than the unique index: the same
\* except clause (274) takes it.
InsertOccError(r) ==
    /\ pc[r] = "insert_occ"
    /\ pc' = [pc EXCEPT ![r] = "rollback"]
    /\ occ_idx' = [occ_idx EXCEPT ![r] = 0]
    /\ UNCHANGED <<txn_exc, del_pc, admin_resp, calls, has_client, req, resp, lock_owner, wait, bookings,
                   occupancies, locks, events, released>>

\* Line 275 raising: the booking is not deleted, the 409 of 276 is never
\* raised and the request answers 500.
RollbackError(r) ==
    /\ pc[r] = "rollback"
    /\ resp' = [resp EXCEPT ![r] = "error"]
    /\ pc' = [pc EXCEPT ![r] = "release"]
    /\ UNCHANGED <<txn_exc, del_pc, admin_resp, calls, has_client, req, lock_owner, wait, occ_idx, bookings,
                   occupancies, locks, events, released>>

\* Lines 279-282 with release_lock raising: the except clause swallows it,
\* the lock record stays and the response is what it was.
ReleaseError(r) ==
    /\ pc[r] = "release"
    /\ released' = [released EXCEPT ![r] = "raised"]
    /\ pc' = [pc EXCEPT ![r] = "done"]
    /\ events' = IF resp[r] = "created" THEN publish_event(r, "sent") ELSE events
    /\ UNCHANGED <<txn_exc, del_pc, admin_resp, calls, has_client, req, resp, lock_owner, wait, occ_idx, bookings,
                   occupancies, locks>>

Next ==
    \/ \E r \in Reqs :
        \/ Begin(r)
        \/ TxnCommit(r)
        \/ TxnBulkWriteError(r)
        \/ TxnTransient(r)
        \/ Acquire(r)
        \/ AcquireBusy(r)
        \/ CheckOverlap(r)
        \/ InsertBooking(r)
        \/ InsertOcc(r)
        \/ InsertOccRefused(r)
        \/ Rollback(r)
        \/ ReadBack(r)
        \/ Release(r)
    \/ Tick

Spec == Init /\ [][Next]_vars

\* The same requests over a store whose calls may fail.
NextFault ==
    \/ Next
    \/ \E r \in Reqs :
        \/ StoreError(r)
        \/ InsertOccError(r)
        \/ RollbackError(r)
        \/ ReleaseError(r)

SpecFault == Init /\ [][NextFault]_vars

\* Lines 285-288 with publish_event raising, after the commit of the
\* transaction: line 287 takes the exception and line 289 returns.
TxnCommitPublishError(r) ==
    /\ pc[r] = "txn"
    /\ \A d \in occ_docs(r) : ~UniqueViolation(d, occupancies)
    /\ bookings' = bookings \cup {booking_dict(r)}
    /\ occupancies' = occupancies \cup occ_docs(r)
    /\ pc' = [pc EXCEPT ![r] = "done"]
    /\ resp' = [resp EXCEPT ![r] = "created"]
    /\ events' = publish_event(r, "raised")
    /\ UNCHANGED <<txn_exc, del_pc, admin_resp, calls, has_client, req, lock_owner, wait, occ_idx, locks, released>>

\* The same after the lock-guarded path.
ReleasePublishError(r) ==
    /\ pc[r] = "release"
    /\ resp[r] = "created"
    /\ locks' = release_lock(lock_key(r), lock_owner[r])
    /\ released' = [released EXCEPT ![r] = IF locks' = locks THEN "noop" ELSE "deleted"]
    /\ pc' = [pc EXCEPT ![r] = "done"]
    /\ events' = publish_event(r, "raised")
    /\ UNCHANGED <<txn_exc, del_pc, admin_resp, calls, has_client, req, resp, lock_owner, wait, occ_idx, bookings,
                   occupancies>>

\* The same requests with an event publisher that may fail.
NextPublish ==
    \/ Next
    \/ \E r \in Reqs :
        \/ TxnCommitPublishError(r)
        \/ ReleasePublishError(r)

SpecPublish == Init /\ [][NextPublish]_vars

\* The same requests with a capacity lookup that may fail.
NextLookup ==
    \/ Next
    \/ \E r \in Reqs : BeginLookupError(r)

SpecLookup == Init /\ [][NextLookup]_vars

\* A booking returned to its caller is cancelled: its status becomes
\* "cancelled", the record and its occupancy records stay in the store (the
\* overlap query of line 254 expects such records).  No handler of
\* bookings.py writes the status; the step is the one of the data model.
Cancel(r) ==
    /\ pc[r] = "done" /\ resp[r] = "created"
    /\ \E b \in bookings : b.id = r /\ b.status # "cancelled"
    /\ bookings' = {IF b.id = r THEN [b EXCEPT !.status = "cancelled"] ELSE b :
                       b \in bookings}
    /\ UNCHANGED <<has_client, req, pc, resp, lock_owner, wait, occ_idx,
                   occupancies, locks, events, released, txn_exc, del_pc,
                   admin_resp, calls>>

NextCancel ==
    \/ Next
    \/ \E r \in Reqs : Cancel(r)

SpecCancel == Init /\ [][NextCancel]_vars

\* Lines 212-232 when the commit at the end of the transaction block takes
\* effect in the store but its acknowledgement is lost: the booking and its
\* occupancy documents are stored, the driver raises a PyMongoError, line 229
\* takes it and created = None sends the request to the lock-guarded path.
TxnCommitUnknown(r) ==
    /\ pc[r] = "txn"
    /\ \A d \in occ_docs(r) : ~UniqueViolation(d, occupancies)
    /\ bookings' = bookings \cup {booking_dict(r)}
    /\ occupancies' = occupancies \cup occ_docs(r)
    /\ pc' = [pc EXCEPT ![r] = "acquire"]
    /\ wait' = [wait EXCEPT ![r] = TIMEOUT]
    /\ txn_exc' = [txn_exc EXCEPT ![r] = "PyMongoError"]
    /\ UNCHANGED <<del_pc, admin_resp, calls, has_client, req, resp, lock_owner,
                   occ_idx, locks, events, released>>

NextCommit ==
    \/ Next
    \/ \E r \in Reqs : TxnCommitUnknown(r)

SpecCommit == Init /\ [][NextCommit]_vars

\* ------------------------------------------------------- startup (main.py)
\* Variant of delete_expired: the filter on expire_at is lost.
delete_expired_All(lks) == {}

\* db.locks.delete_many({"expire_at": {"$lt": datetime.utcnow()}}) of
\* main.py line 64: the collection afterwards.
delete_expired(lks) == {l \in lks : ~(l.expire_at < 0)}

\* main.py lines 53-67, the lifespan of a starting process sharing the store:
\* with a client that answered the ping the stale locks are deleted; a
\* failing delete_many is logged (66-67) and changes nothing.
Sweep ==
    /\ has_client
    /\ \E ok \in BOOLEAN :
        locks' = IF ok THEN delete_expired(locks) ELSE locks
    /\ UNCHANGED <<has_client, req, pc, resp, lock_owner, wait, occ_idx,
                   bookings, occupancies, events, released, txn_exc, del_pc,
                   admin_resp, calls>>

NextSweep ==
    \/ Next
    \/ Sweep

SpecSweep == Init /\ [][NextSweep]_vars

\* ----------------------------------------------- the other booking endpoints
\* The store after create_booking requests have committed their transactions
\* (Begin and TxnCommit of each, one after the other): every request has not
\* arrived or has returned its created booking, and no request is in
\* progress.
InitOps ==
    /\ has_client = TRUE
    /\ req \in [Reqs -> {NoReq} \cup
                  {[accommodation_id |-> a, check_in |-> Str(ci),
                    check_out |-> Str(co), guests |-> 0] :
                      a \in AccInputs, ci \in DayTexts, co \in DayTexts}]
    /\ \A r \in Reqs : req[r] # NoReq => Validate(req[r]) = "ok"
    /\ \A r1 \in Reqs, r2 \in Reqs :
        (r1 # r2 /\ req[r1] # NoReq /\ req[r2] # NoReq) =>
            \A d \in occ_docs(r1) : ~UniqueViolation(d, occ_docs(r2))
    /\ pc = [r \in Reqs |-> IF req[r] = NoReq THEN "idle" ELSE "done"]
    /\ resp = [r \in Reqs |-> IF req[r] = NoReq THEN "none" ELSE "created"]
    /\ lock_owner = [r \in Reqs |-> 0]
    /\ wait = [r \in Reqs |-> 0]
    /\ occ_idx = [r \in Reqs |-> 0]
    /\ bookings = {booking_dict(r) : r \in {x \in Reqs : req[x] # NoReq}}
    /\ occupancies = UNION {occ_docs(r) : r \in {x \in Reqs : req[x] # NoReq}}
    /\ locks = {}
    /\ events = [r \in Reqs |-> IF req[r] = NoReq THEN <<>> ELSE <<"sent">>]
    /\ released = [r \in Reqs |-> "no"]
    /\ txn_exc = [r \in Reqs |-> "none"]
    /\ del_pc = [b \in BookingIds |-> "idle"]
    /\ admin_resp = NoResp
    /\ calls = 0

\* ObjectId(booking_id) of lines 305, 321, 365 raises for id 0.
IsObjectId(id) == id # 0

Response(op, id, status, n) == [op |-> op, id |-> id, status |-> status, n |-> n]

\* Variant of delete_many: the filter on booking_id is lost.
delete_many_Unfiltered(occs, b_id) == {}

\* db["occupancies"].delete_many({"booking_id": b_id}) of lines 329 and 368:
\* the collection afterwards.
delete_many(occs, b_id) == {e \in occs : e.booking_id # b_id}

\* Lines 360-369, release_occupancies_endpoint.
ReleaseOccupancies(id) ==
    /\ calls < MaxCalls
    /\ calls' = calls + 1
    /\ IF IsObjectId(id)
       THEN /\ occupancies' = delete_many(occupancies, id)
            /\ admin_resp' = Response("release", id, 200,
                                Cardinality(occupancies) - Cardinality(occupancies'))
       ELSE /\ occupancies' = occupancies
            /\ admin_resp' = Response("release", id, 400, 0)
    /\ UNCHANGED <<has_client, req, pc, resp, lock_owner, wait, occ_idx,
                   bookings, locks, events, released, txn_exc, del_pc>>

\* The update_data of an update_booking call: the fields of the
\* BookingUpdateRequest that are not None (one of them here).
UpdateInputs ==
    [field : {"check_in", "check_out"}, value : {Str(d) : d \in 1..MaxDay}]
        \cup [field : {"accommodation_id"}, value : AccInputs]

set(b, u) ==
    CASE u.field = "check_in" -> [b EXCEPT !.check_in = u.value]
      [] u.field = "check_out" -> [b EXCEPT !.check_out = u.value]
      [] u.field = "accommodation_id" -> [b EXCEPT !.accommodation_id = u.value]

\* Variant of update_booking: an update whose result overlaps another
\* non-cancelled booking of the same resource is refused.
UpdateBooking_Rechecked(id) ==
    /\ calls < MaxCalls
    /\ calls' = calls + 1
    /\ \E u \in UpdateInputs :
        IF ~IsObjectId(id)
        THEN /\ bookings' = bookings
             /\ admin_resp' = Response("update", id, 400, 0)
        ELSE IF \A b \in bookings : b.id # id
        THEN /\ bookings' = bookings
             /\ admin_resp' = Response("update", id, 404, 0)
        ELSE IF \E b \in bookings, o \in bookings :
                    /\ b.id = id /\ o.id # id
                    /\ Elems(set(b, u).accommodation_id)
                           \cap Elems(o.accommodation_id) # {}
                    /\ set(b, u).check_in[2] < o.check_out[2]
                    /\ set(b, u).check_out[2] > o.check_in[2]
        THEN /\ bookings' = bookings
             /\ admin_resp' = Response("update", id, 409, 0)
        ELSE /\ bookings' = {IF b.id = id THEN set(b, u) ELSE b : b \in bookings}
             /\ admin_resp' = Response("update", id, 200, 0)
    /\ UNCHANGED <<has_client, req, pc, resp, lock_owner, wait, occ_idx,
                   occupancies, locks, events, released, txn_exc, del_pc>>

\* Lines 292-313, update_booking: update_one with $set of the given fields,
\* whatever the other bookings and the occupancy records say.
UpdateBooking(id) ==
    /\ calls < MaxCalls
    /\ calls' = calls + 1
    /\ \E u \in UpdateInputs :
        IF ~IsObjectId(id)
        THEN /\ bookings' = bookings
             /\ admin_resp' = Response("update", id, 400, 0)
        ELSE IF \A b \in bookings : b.id # id
        THEN /\ bookings' = bookings
             /\ admin_resp' = Response("update", id, 404, 0)
        ELSE /\ bookings' = {IF b.id = id THEN set(b, u) ELSE b : b \in bookings}
             /\ admin_resp' = Response("update", id, 200, 0)
    /\ UNCHANGED <<has_client, req, pc, resp, lock_owner, wait, occ_idx,
                   occupancies, locks, events, released, txn_exc, del_pc>>

\* Lines 316-326, delete_booking up to its find_one.
DeleteFind(id) ==
    /\ calls < MaxCalls
    /\ del_pc[id] = "idle"
    /\ calls' = calls + 1
    /\ IF ~IsObjectId(id)
       THEN /\ admin_resp' = Response("delete", id, 400, 0)
            /\ del_pc' = del_pc
       ELSE IF \A b \in bookings : b.id # id
       THEN /\ admin_resp' = Response("delete", id, 404, 0)
            /\ del_pc' = del_pc
       ELSE /\ admin_resp' = admin_resp
            /\ del_pc' = [del_pc EXCEPT ![id] = "occupancies"]
    /\ UNCHANGED <<has_client, req, pc, resp, lock_owner, wait, occ_idx,
                   bookings, occupancies, locks, events, released, txn_exc>>

\* Lines 327-332: the occupancy records of the booking are deleted.
DeleteOccupancies(id) ==
    /\ del_pc[id] = "occupancies"
    /\ occupancies' = delete_many(occupancies, id)
    /\ del_pc' = [del_pc EXCEPT ![id] = "booking"]
    /\ UNCHANGED <<has_client, req, pc, resp, lock_owner, wait, occ_idx,
                   bookings, locks, events, released, txn_exc, admin_resp, calls>>

\* Lines 333-336: the booking record is deleted.
DeleteBooking(id) ==
    /\ del_pc[id] = "booking"
    /\ bookings' = {b \in bookings : b.id # id}
    /\ admin_resp' = Response("delete", id,
                               IF bookings' = bookings THEN 404 ELSE 200, 0)
    /\ del_pc' = [del_pc EXCEPT ![id] = "idle"]
    /\ UNCHANGED <<has_client, req, pc, resp, lock_owner, wait, occ_idx,
                   occupancies, locks, events, released, txn_exc, calls>>

NextOps ==
    \E id \in BookingIds :
        \/ ReleaseOccupancies(id)
        \/ UpdateBooking(id)
        \/ DeleteFind(id)
        \/ DeleteOccupancies(id)
        \/ DeleteBooking(id)

SpecOps == InitOps /\ [][NextOps]_vars

\* Lines 328-332 when delete_many raises: the except clause passes, the
\* occupancy records stay and the handler goes on to delete the booking.
DeleteOccupanciesError(id) ==
    /\ del_pc[id] = "occupancies"
    /\ del_pc' = [del_pc EXCEPT ![id] = "booking"]
    /\ UNCHANGED <<has_client, req, pc, resp, lock_owner, wait, occ_idx,
                   bookings, occupancies, locks, events, released, txn_exc,
                   admin_resp, calls>>

NextOpsFault ==
    \/ NextOps
    \/ \E id \in BookingIds : DeleteOccupanciesError(id)

SpecOpsFault == InitOps /\ [][NextOpsFault]_vars

\* ================================================================ claims
Done(r) == pc[r] = "done"

Created(r) == Done(r) /\ resp[r] = "created"

Valid(r) == pc[r] # "idle" /\ Validate(req[r]) = "ok"

\* The nights [check_in, check_out) of a request or of a stored booking.
NightSet(x) == {d \in 1..MaxDay : /\ strptime(x.check_in)[2] <= d
                                   /\ d < strptime(x.check_out)[2]}

SharesResource(x, y) ==
    Elems(x.accommodation_id) \cap Elems(y.accommodation_id) # {}

OwnedOccupancies(r) == {e \in occupancies : e.booking_id = r}

\* ----------------------------------------------------------------- C1
\* C1 as stated: in every reachable state any two distinct non-cancelled
\* stored bookings that share a resource have disjoint night-sets.
C1_StoredBookingsDisjoint ==
    \A b1 \in bookings, b2 \in bookings :
        (/\ b1.id # b2.id
         /\ b1.status # "cancelled" /\ b2.status # "cancelled"
         /\ SharesResource(b1, b2))
        => NightSet(b1) \cap NightSet(b2) = {}

\* C1 amended: any two bookings whose create_booking request has returned
\* the created booking and that share a resource have disjoint night-sets,
\* and no (resource, night) is held by two occupancy records.
C1_CreatedBookingsDisjoint ==
    /\ \A b1 \in bookings, b2 \in bookings :
        (/\ b1.id # b2.id
         /\ Created(b1.id) /\ Created(b2.id)
         /\ b1.status # "cancelled" /\ b2.status # "cancelled"
         /\ SharesResource(b1, b2))
        => NightSet(b1) \cap NightSet(b2) = {}
    /\ \A e1 \in occupancies, e2 \in occupancies :
        (e1 # e2 /\ SharesResource(e1, e2)) => e1.date # e2.date

C1_Witness ==
    \E b1 \in bookings, b2 \in bookings :
        /\ b1.id # b2.id
        /\ Created(b1.id) /\ Created(b2.id)
        /\ SharesResource(b1, b2)

\* ----------------------------------------------------------------- C2
SameRequest(r1, r2) ==
    /\ req[r1].accommodation_id = req[r2].accommodation_id
    /\ req[r1].check_in = req[r2].check_in
    /\ req[r1].check_out = req[r2].check_out

AllSameDone ==
    /\ \A r \in Reqs : Done(r) /\ Valid(r)
    /\ \A r1 \in Reqs, r2 \in Reqs : SameRequest(r1, r2)

\* C2: when all the requests ask for the same resource and the same dates,
\* once they have all returned exactly one has returned the created booking
\* and each of the others a 409.
C2_ExactlyOneSucceeds ==
    AllSameDone =>
        /\ Cardinality({r \in Reqs : resp[r] = "created"}) = 1
        /\ \A r \in Reqs : resp[r] # "created" => status_code(resp[r]) = 409

C2_Witness ==
    /\ AllSameDone
    /\ \E r \in Reqs : resp[r] = "created"
    /\ \E r \in Reqs : resp[r] = "conflict"

\* ----------------------------------------------------------------- C3
\* A = [d1, d3), B = [d2, d4) on the same resource with d1 < d2 < d3 < d4.
PartlyOverlapping(r1, r2) ==
    /\ Valid(r1) /\ Valid(r2)
    /\ req[r1].accommodation_id = req[r2].accommodation_id
    /\ req[r1].check_in[2] < req[r2].check_in[2]
    /\ req[r2].check_in[2] < req[r1].check_out[2]
    /\ req[r1].check_out[2] < req[r2].check_out[2]

\* C3: of two requests whose date ranges overlap without being the same (so
\* that their lock keys differ), once both have returned at most one has
\* returned the created booking and the other a 409.
C3_PartialOverlapOneLoses ==
    \A r1 \in Reqs, r2 \in Reqs :
        (PartlyOverlapping(r1, r2) /\ Done(r1) /\ Done(r2)) =>
            /\ lock_key(r1) # lock_key(r2)
            /\ ~(resp[r1] = "created" /\ resp[r2] = "created")
            /\ \E r \in {r1, r2} : status_code(resp[r]) = 409

\* Both went through the lock-guarded path, each with its own lock.
C3_Witness ==
    \E r1 \in Reqs, r2 \in Reqs :
        /\ PartlyOverlapping(r1, r2) /\ Done(r1) /\ Done(r2)
        /\ lock_owner[r1] # 0 /\ lock_owner[r2] # 0
        /\ resp[r1] = "conflict" /\ resp[r2] = "created"

\* ----------------------------------------------------------------- C4
\* Every other request that has arrived for one of r's resources asks for
\* nights r does not ask for (a stay ending on r's check-in day included).
NoRivalNight(r) ==
    \A r2 \in Reqs \ {r} :
        (Valid(r2) /\ SharesResource(req[r], req[r2]))
            => NightSet(req[r]) \cap NightSet(req[r2]) = {}

\* C4: the nights of a request are exactly check_in .. check_out - 1, no
\* occupancy record is written for another night (the check-out day is never
\* occupied), and a request whose rivals on the resource only ask for other
\* nights, such as a stay that ends on its check-in day, is not rejected: it
\* returns the created booking.
C4_HalfOpenNights ==
    /\ \A r \in Reqs : Valid(r) =>
        /\ {n[2] : n \in Elems(nights(r))} = NightSet(req[r])
        /\ Len(nights(r)) = req[r].check_out[2] - req[r].check_in[2]
    /\ \A e \in occupancies : e.date[2] \in NightSet(req[e.booking_id])
    /\ \A r \in Reqs :
        (Done(r) /\ Valid(r) /\ NoRivalNight(r)) => resp[r] = "created"

\* A stay [a, b) and a stay [b, c) on the same resource, both created.
C4_Witness ==
    \E r1 \in Reqs, r2 \in Reqs :
        /\ Created(r1) /\ Created(r2)
        /\ req[r1].accommodation_id = req[r2].accommodation_id
        /\ req[r1].check_out[2] = req[r2].check_in[2]

\* ----------------------------------------------------------------- C5
\* C5: a request of the lock-guarded path that returns the 409 of the failed
\* occupancy insert has left neither its booking record nor any occupancy
\* record of that booking in the store.
C5_RollbackLeavesNothing ==
    \A r \in Reqs :
        (Done(r) /\ resp[r] = "conflict" /\ lock_owner[r] # 0) =>
            /\ \A b \in bookings : b.id # r
            /\ OwnedOccupancies(r) = {}

\* ----------------------------------------------------------------- C6
LiveRecords(key) == {l \in locks : l.key = key /\ l.expire_at >= 0}

\* C6: a key never has two unexpired lock records (so never two live
\* owners), and a request becomes the owner only in a step that starts with
\* no unexpired record on its key and ends with its own unexpired record
\* there.
C6_OneLiveOwnerState ==
    \A l1 \in locks, l2 \in locks :
        (l1.key = l2.key /\ l1.expire_at >= 0 /\ l2.expire_at >= 0) => l1 = l2

C6_AcquireOnlyWhenFreeStep ==
    \A r \in Reqs :
        (lock_owner[r] = 0 /\ lock_owner'[r] # 0) =>
            /\ LiveRecords(lock_key(r)) = {}
            /\ \E l \in locks' : /\ l.key = lock_key(r)
                                 /\ l.owner = lock_owner'[r]
                                 /\ l.expire_at >= 0
            /\ \A l \in locks' : l.key = lock_key(r) => l.owner = lock_owner'[r]

\* C6: at any time at most one request owns the unexpired lock of a key, and
\* ownership is taken only when the key has no unexpired record.
C6_OneLiveOwner == [](C6_OneLiveOwnerState) /\ [][C6_AcquireOnlyWhenFreeStep]_vars

\* Two requests for one key: one holds the unexpired lease, the other waits.
C6_Witness ==
    \E r1 \in Reqs, r2 \in Reqs :
        /\ r1 # r2
        /\ Valid(r1) /\ Valid(r2) /\ lock_key(r1) = lock_key(r2)
        /\ pc[r2] = "acquire"
        /\ \E l \in locks : l.key = lock_key(r1) /\ l.owner = uuid4(r1)
                            /\ l.expire_at >= 0

\* ----------------------------------------------------------------- C7
\* C7: the release of a request takes away nothing but the record of its key
\* that carries its own token and leaves every other record as it is; the
\* token it presents is the one it acquired with, and no two requests have
\* the same token.
C7_ReleaseStep ==
    \A r \in Reqs :
        (pc[r] = "release" /\ pc'[r] = "done") =>
            /\ lock_owner[r] = uuid4(r)
            /\ locks' \subseteq locks
            /\ \A l \in locks \ locks' :
                l.owner = lock_owner[r] /\ l.key = lock_key(r)
            /\ \A l \in locks : l.owner # lock_owner[r] => l \in locks'
            /\ (\A l \in locks : l.owner # lock_owner[r]) => locks' = locks

C7_FreshTokens ==
    /\ \A r1 \in Reqs, r2 \in Reqs :
        (r1 # r2 /\ lock_owner[r1] # 0) => lock_owner[r1] # lock_owner[r2]
    /\ \A l \in locks : lock_owner[l.owner] = l.owner

\* C7: tokens are unique per request and a release deletes only the record
\* that carries the releasing request's token.
C7_ReleaseOnlyOwn == [](C7_FreshTokens) /\ [][C7_ReleaseStep]_vars

\* A former holder whose lease expired and went to another request has made
\* its release: it deleted nothing and the other request's lease is intact.
C7_Witness ==
    \E r1 \in Reqs, r2 \in Reqs :
        /\ r1 # r2
        /\ Done(r1) /\ released[r1] = "noop"
        /\ \E l \in locks : /\ l.key = lock_key(r1)
                            /\ l.owner = uuid4(r2)
                            /\ l.expire_at >= 0

\* ----------------------------------------------------------------- C8
CriticalSection ==
    {"overlap", "insert_booking", "insert_occ", "rollback", "readback", "release"}

\* C8: a request waiting for a key whose record has passed its expiry can
\* acquire it, and when it leaves the wait in such a state it leaves as the
\* new owner with a fresh lease, whatever the previous holder did.
C8_ExpiredIsFreeState ==
    \A r \in Reqs :
        (pc[r] = "acquire" /\ LiveRecords(lock_key(r)) = {}) => ENABLED Acquire(r)

C8_ExpiredIsFreeStep ==
    \A r \in Reqs :
        (/\ pc[r] = "acquire" /\ pc'[r] # "acquire"
         /\ LiveRecords(lock_key(r)) = {}) =>
            /\ pc'[r] = "overlap"
            /\ \E l \in locks' : /\ l.key = lock_key(r)
                                 /\ l.owner = uuid4(r)
                                 /\ l.expire_at = TTL_SECONDS

\* C8: a lock record past its expiry does not block a waiting request, which
\* becomes the new owner with a fresh lease.
C8_ExpiredLockReassigned ==
    [](C8_ExpiredIsFreeState) /\ [][C8_ExpiredIsFreeStep]_vars

\* r1 took the key and has not released it; r2 owns it now.
C8_Witness ==
    \E r1 \in Reqs, r2 \in Reqs :
        /\ r1 # r2
        /\ pc[r1] \in CriticalSection /\ released[r1] = "no"
        /\ lock_key(r1) = lock_key(r2)
        /\ lock_owner[r2] = uuid4(r2)
        /\ \E l \in locks : l.key = lock_key(r2) /\ l.owner = uuid4(r2)

\* ----------------------------------------------------------------- C9
\* C9 as stated: every request that acquired the lock has, once it has
\* returned, no lock record left under its token.
C9_NoLockAfterReturn ==
    \A r \in Reqs :
        (Done(r) /\ lock_owner[r] # 0) =>
            \A l \in locks : l.owner # lock_owner[r]

\* C9 amended: every way out of the critical section goes through the
\* release with the request's own token, the release (failing or not) leaves
\* the result of the request as it was, and after the request has returned
\* its token holds no lock unless that release raised.
C9_ReleasedState ==
    \A r \in Reqs :
        (Done(r) /\ lock_owner[r] # 0) =>
            /\ released[r] # "no"
            /\ released[r] # "raised" => \A l \in locks : l.owner # lock_owner[r]

C9_ReleaseStep ==
    \A r \in Reqs :
        /\ (pc[r] \in CriticalSection /\ pc'[r] = "done") =>
              (pc[r] = "release" /\ lock_owner[r] = uuid4(r) /\ resp'[r] = resp[r])
        /\ (pc[r] \in CriticalSection /\ pc'[r] # pc[r]) =>
              pc'[r] \in CriticalSection \cup {"done"}

\* C9 amended: every exit from the critical section releases with the
\* request's token, and a returned request holds no lock unless that release
\* raised.
C9_ReleaseOnEveryExit == [](C9_ReleasedState) /\ [][C9_ReleaseStep]_vars

\* One request left with a 500 and released its lock; another returned its
\* created booking although its release raised.
C9_Witness ==
    \E r1 \in Reqs, r2 \in Reqs :
        /\ Done(r1) /\ resp[r1] = "error" /\ released[r1] = "deleted"
        /\ Done(r2) /\ resp[r2] = "created" /\ released[r2] = "raised"

\* ---------------------------------------------------------------- C10
\* C10: a waiting acquire can always go on (it can take the lock, or give
\* up, or its window is still running down); a request enters the critical
\* section only with its token; the step that gives up finds the key held
\* by an unexpired record at the end of the window and changes no booking,
\* occupancy or lock record; and a request that answered "busy" has written
\* no booking and no occupancy record and holds no lock.
C10_BusyState ==
    \A r \in Reqs :
        /\ pc[r] = "acquire" =>
            \/ ENABLED Acquire(r)
            \/ ENABLED AcquireBusy(r)
            \/ (wait[r] > 0 /\ ENABLED Tick)
        /\ pc[r] \in CriticalSection => lock_owner[r] = uuid4(r)
        /\ (Done(r) /\ resp[r] = "busy") =>
            /\ status_code(resp[r]) = 409
            /\ \A b \in bookings : b.id # r
            /\ OwnedOccupancies(r) = {}
            /\ lock_owner[r] = 0
            /\ \A l \in locks : l.owner # uuid4(r)

C10_BusyStep ==
    \A r \in Reqs :
        (resp[r] # "busy" /\ resp'[r] = "busy") =>
            /\ wait[r] = 0
            /\ LiveRecords(lock_key(r)) # {}
            /\ pc'[r] = "done"
            /\ UNCHANGED <<bookings, occupancies, locks>>

\* C10: the acquire never blocks past its window; at its end the request
\* answers "busy" having written nothing.
C10_AcquireTerminates == [](C10_BusyState) /\ [][C10_BusyStep]_vars

\* A request answered "busy"; the holder's unexpired record is still there.
C10_Witness ==
    \E r \in Reqs :
        /\ Done(r) /\ resp[r] = "busy"
        /\ \E l \in locks : /\ l.key = lock_key(r) /\ l.expire_at >= 0
                            /\ l.owner # uuid4(r)

\* ---------------------------------------------------------------- C11
\* C11: a request whose transaction met a uniqueness violation on its
\* occupancy records has returned the 409 conflict straight from the
\* transactional path: it never waits for or holds the lease lock, and
\* neither its booking nor any occupancy record of it is in the store.
C11_TxnConflictReturns ==
    \A r \in Reqs :
        txn_exc[r] = "BulkWriteError" =>
            /\ Done(r) /\ resp[r] = "conflict"
            /\ lock_owner[r] = 0
            /\ \A b \in bookings : b.id # r
            /\ OwnedOccupancies(r) = {}

\* ---------------------------------------------------------------- C12
\* C12: a transient store error of the transaction is not the request's
\* result; the step that meets it writes nothing and leaves the request
\* where a request without transactions starts the lock-guarded path (before
\* acquire, the whole timeout window ahead, no result, no token), and the
\* request ends with a result of that path: created with its booking and all
\* its occupancy records stored, or a 409.
C12_FallbackState ==
    \A r \in Reqs :
        txn_exc[r] = "PyMongoError" =>
            /\ pc[r] \in {"acquire", "done"} \cup CriticalSection
            /\ resp[r] # "error"
            /\ Done(r) =>
                /\ resp[r] \in {"created", "conflict", "busy"}
                /\ resp[r] = "busy" <=> lock_owner[r] = 0
                /\ lock_owner[r] # 0 => released[r] # "no"
                /\ resp[r] = "created" =>
                    /\ booking_dict(r) \in bookings
                    /\ occ_docs(r) \subseteq occupancies

C12_FallbackStep ==
    \A r \in Reqs :
        (txn_exc[r] # "PyMongoError" /\ txn_exc'[r] = "PyMongoError") =>
            /\ pc[r] = "txn" /\ pc'[r] = "acquire"
            /\ wait'[r] = TIMEOUT
            /\ resp'[r] = "none" /\ lock_owner'[r] = 0
            /\ occ_idx'[r] = 0 /\ released'[r] = "no"
            /\ UNCHANGED <<bookings, occupancies, locks, events>>

\* C12: the transient failure of the transaction is followed by the
\* lock-guarded path, whose result is the request's result.
C12_TransientFallsBack == [](C12_FallbackState) /\ [][C12_FallbackStep]_vars

\* A request whose transaction failed has gone through the lock-guarded path
\* and returned its created booking; another one lost there.
C12_Witness ==
    \E r1 \in Reqs, r2 \in Reqs :
        /\ txn_exc[r1] = "PyMongoError" /\ Created(r1) /\ released[r1] = "deleted"
        /\ txn_exc[r2] = "PyMongoError" /\ Done(r2) /\ resp[r2] = "conflict"

\* ---------------------------------------------------------------- C13
\* C13: a request that has returned the failure of an unexpected error has
\* left no booking record of its own in the store.
C13_ErrorLeavesNoBooking ==
    \A r \in Reqs :
        (Done(r) /\ resp[r] = "error") => \A b \in bookings : b.id # r

\* ---------------------------------------------------------------- C14
Arrived(r) == pc[r] # "idle"

\* Nothing of request r is in the store and no event was requested for it.
NothingWritten(r) ==
    /\ \A b \in bookings : b.id # r
    /\ OwnedOccupancies(r) = {}
    /\ \A l \in locks : l.owner # uuid4(r)
    /\ lock_owner[r] = 0
    /\ events[r] = <<>>

C14_RejectedState ==
    \A r \in Reqs :
        /\ (Arrived(r) /\ req[r].guests > total_cap(req[r])) =>
            /\ Done(r)
            /\ resp[r] \in {"capacity", "validation"}
            /\ resp[r] = "capacity" <=> ~StrGe(req[r].check_in, req[r].check_out)
            /\ status_code(resp[r]) = 400
            /\ NothingWritten(r)
        /\ resp[r] = "capacity" => req[r].guests > total_cap(req[r])

C14_RejectedStep ==
    \A r \in Reqs :
        (resp[r] # "capacity" /\ resp'[r] = "capacity") =>
            /\ pc[r] = "idle" /\ pc'[r] = "done"
            /\ UNCHANGED <<bookings, occupancies, locks, events>>

Unresolved(q) ==
    /\ find_one(rooms, <<"array", q.accommodation_id>>) = {}
    /\ find_one(accommodations, <<"array", q.accommodation_id>>) = {}

\* C15: a request for which no room or accommodation record is found is not
\* rejected for capacity.
C15_UnresolvedCapacityProceeds ==
    \A r \in Reqs :
        (Arrived(r) /\ Unresolved(req[r])) => resp[r] # "capacity"

\* ---------------------------------------------------------------- C16
\* check_in / check_out cannot be parsed or are not strictly ordered as dates.
Malformed(q) ==
    \/ ~Parseable(q.check_in) \/ ~Parseable(q.check_out)
    \/ strptime(q.check_in)[2] >= strptime(q.check_out)[2]

\* C16: a request whose dates cannot be parsed or are not strictly ordered
\* has been answered 400 as soon as it has arrived and nothing of it is in
\* the store; every stored booking has parseable dates with check_in before
\* check_out.
C16_InvalidState ==
    /\ \A r \in Reqs :
        (Arrived(r) /\ Malformed(req[r])) =>
            /\ Done(r)
            /\ status_code(resp[r]) = 400
            /\ NothingWritten(r)
    /\ \A b \in bookings :
        /\ Parseable(b.check_in) /\ Parseable(b.check_out)
        /\ strptime(b.check_in)[2] < strptime(b.check_out)[2]

\* The step that rejects a request with 400 changes no collection and
\* requests no event.
C16_InvalidStep ==
    \A r \in Reqs :
        (resp[r] = "none" /\ resp'[r] \in {"validation", "capacity"}) =>
            /\ pc[r] = "idle" /\ pc'[r] = "done"
            /\ UNCHANGED <<bookings, occupancies, locks, events>>

\* C16: malformed or unordered dates are rejected with 400 before any write,
\* so that every stored booking has check_in strictly before check_out.
C16_InvalidDatesRejected == [](C16_InvalidState) /\ [][C16_InvalidStep]_vars

\* A request whose date texts are in order as texts but not as dates was
\* rejected by line 192, one with an unparseable text by line 189, and a
\* booking is stored.
C16_Witness ==
    \E r1 \in Reqs, r2 \in Reqs :
        /\ Done(r1) /\ resp[r1] = "validation"
        /\ Parseable(req[r1].check_in) /\ Parseable(req[r1].check_out)
        /\ ~StrGe(req[r1].check_in, req[r1].check_out)
        /\ Done(r2) /\ resp[r2] = "created"
        /\ bookings # {}

\* ---------------------------------------------------------------- C17
\* C17: a release call with the id of a booking deletes the occupancy
\* records owned by that booking and no others, changes no booking, answers
\* 200 with the number of records it deleted; with no record owned by the id
\* that number is zero and the store is unchanged.
C17_ReleaseStep ==
    \A id \in BookingIds :
        (/\ calls' = calls + 1 /\ del_pc' = del_pc
         /\ admin_resp'.op = "release" /\ admin_resp'.id = id
         /\ IsObjectId(id)) =>
            /\ occupancies' = occupancies \ OwnedOccupancies(id)
            /\ admin_resp'.status = 200
            /\ admin_resp'.n = Cardinality(OwnedOccupancies(id))
            /\ OwnedOccupancies(id) = {} =>
                (admin_resp'.n = 0 /\ occupancies' = occupancies)
            /\ UNCHANGED <<bookings, locks>>

\* Right after a release of an id no occupancy record is owned by it, so
\* that a second release finds none.
C17_ReleasedState ==
    (admin_resp.op = "release" /\ admin_resp.status = 200) =>
        OwnedOccupancies(admin_resp.id) = {}

\* C17: release(booking_id) deletes exactly the occupancy records of
\* booking_id and is a successful no-op reporting zero when there are none.
C17_ReleaseIdempotent == [](C17_ReleasedState) /\ [][C17_ReleaseStep]_vars

\* The second of two release calls for a stored booking with nights: it
\* answered 200 with zero records, while another booking keeps its records.
C17_Witness ==
    \E id \in Reqs, other \in Reqs :
        /\ calls = 2
        /\ admin_resp = Response("release", id, 200, 0)
        /\ \E b \in bookings : b.id = id
        /\ del_pc[id] = "idle"
        /\ OwnedOccupancies(id) = {}
        /\ other # id /\ OwnedOccupancies(other) # {}

\* ---------------------------------------------------------------- C18
\* C18: a request that has returned its created booking has had exactly one
\* publish_event call, and its booking and occupancy records are stored
\* whether that call was sent or raised; no other request (in progress,
\* rejected with 400, answered 409) has had one.
C18_PublishedState ==
    \A r \in Reqs :
        /\ Created(r) =>
            /\ Len(events[r]) = 1
            /\ booking_dict(r) \in bookings
            /\ occ_docs(r) \subseteq occupancies
        /\ ~Created(r) => events[r] = <<>>

\* The call is made in the step in which the request returns the created
\* booking, with the booking stored; a call that raises leaves the response
\* and the other stored records as a call that does not.
C18_PublishStep ==
    \A r \in Reqs :
        events'[r] # events[r] =>
            /\ events[r] = <<>> /\ Len(events'[r]) = 1
            /\ pc[r] # "done" /\ pc'[r] = "done" /\ resp'[r] = "created"
            /\ booking_dict(r) \in bookings'
            /\ occ_docs(r) \subseteq occupancies'
            /\ bookings' \ {booking_dict(r)} = bookings \ {booking_dict(r)}
            /\ occupancies' \ occ_docs(r) = occupancies \ occ_docs(r)

\* C18: booking-created is requested exactly once per successful request,
\* after the booking is stored, never for a rejected one, and a failing
\* publisher changes neither the response nor the stored records.
C18_EventOncePerCreated == [](C18_PublishedState) /\ [][C18_PublishStep]_vars

\* The publisher failed for a created booking of the lock-guarded path;
\* another request was answered 409 and had no event.
C18_Witness ==
    \E r1 \in Reqs, r2 \in Reqs :
        /\ Created(r1) /\ events[r1] = <<"raised">> /\ lock_owner[r1] # 0
        /\ Done(r2) /\ resp[r2] = "conflict" /\ events[r2] = <<>>

\* ---------------------------------------------------------------- C19
\* The occupancy records of booking b that cover resource res on night d.
Covering(b, res, d) ==
    {e \in occupancies : /\ e.booking_id = b.id
                          /\ res \in Elems(e.accommodation_id)
                          /\ e.date = Date(d)}

\* C19: whenever no reservation request is in progress, every stored booking
\* owns exactly one occupancy record for each of its resources on each of
\* its nights [check_in, check_out) and none for another resource or night.
C19_LedgerMatchesBookings ==
    (\A r \in Reqs : pc[r] \in {"idle", "done"}) =>
        \A b \in bookings :
            /\ \A res \in Elems(b.accommodation_id), d \in NightSet(b) :
                Cardinality(Covering(b, res, d)) = 1
            /\ \A e \in OwnedOccupancies(b.id) :
                /\ e.date[2] \in NightSet(b)
                /\ Elems(e.accommodation_id) \subseteq Elems(b.accommodation_id)

\* ---------------------------------------------------------------- C20
\* Request r is between its acquire and the end of its release.
InSection(r) == pc[r] \in CriticalSection

\* The lock record of r's key carries r's token and has not expired.
HoldsLive(r) ==
    \E l \in locks : /\ l.key = lock_key(r)
                      /\ l.owner = lock_owner[r]
                      /\ l.expire_at >= 0

\* C20 as stated: a request that stands before its overlap re-check, its
\* booking insert or its occupancy insert is the live holder of the lease of
\* its key, and no two requests for one key are between acquire and release
\* together.
C20_ExclusiveUnderLease ==
    /\ \A r \in Reqs :
        pc[r] \in {"overlap", "insert_booking", "insert_occ"} => HoldsLive(r)
    /\ \A r1 \in Reqs, r2 \in Reqs :
        (r1 # r2 /\ InSection(r1) /\ InSection(r2)) => lock_key(r1) # lock_key(r2)

\* C20 amended: of two requests for one key that are between acquire and
\* release together, at most one is the live holder of the lease.
C20_LeaseState ==
    \A r1 \in Reqs, r2 \in Reqs :
        (r1 # r2 /\ InSection(r1) /\ InSection(r2) /\ lock_key(r1) = lock_key(r2))
            => ~(HoldsLive(r1) /\ HoldsLive(r2))

\* A request enters the section as the live holder with the whole TTL ahead
\* and only when no request in the section for its key is the live holder
\* (the lease of such a request has expired); the lease of a live holder ends
\* by its own release or by the passing of time, never by another request's
\* step.
C20_LeaseStep ==
    \A r \in Reqs :
        /\ (pc[r] = "acquire" /\ pc'[r] \in CriticalSection) =>
            /\ \E l \in locks' : /\ l.key = lock_key(r)
                                  /\ l.owner = lock_owner'[r]
                                  /\ l.expire_at = TTL_SECONDS
            /\ \A r1 \in Reqs \ {r} :
                (InSection(r1) /\ lock_key(r1) = lock_key(r)) => ~HoldsLive(r1)
        /\ (InSection(r) /\ HoldsLive(r)) =>
            \/ \E l \in locks' : l.key = lock_key(r) /\ l.owner = lock_owner[r]
            \/ (pc[r] = "release" /\ pc'[r] = "done")

\* C20 amended: the section is entered and kept under the live lease until
\* release or expiry; only an expired lease lets a second request in.
C20_ExclusiveUntilExpiry == [](C20_LeaseState) /\ [][C20_LeaseStep]_vars

\* A holder stalled past the TTL before its booking insert; another request
\* for the same key is the live holder and in the section too.
C20_Witness ==
    \E r1 \in Reqs, r2 \in Reqs :
        /\ r1 # r2 /\ lock_key(r1) = lock_key(r2)
        /\ pc[r1] \in {"insert_booking", "insert_occ"} /\ ~HoldsLive(r1)
        /\ InSection(r2) /\ HoldsLive(r2)

\* ---------------------------------------------------------------- C21
\* C21: whenever delete_booking reports success, neither the booking record
\* nor any occupancy record owned by it remains, and no occupancy record
\* refers to a booking that is not stored, also when the occupancy delete
\* step of delete_booking fails.
C21_DeleteRemovesAll ==
    /\ (admin_resp.op = "delete" /\ admin_resp.status = 200) =>
          /\ \A b \in bookings : b.id # admin_resp.id
          /\ OwnedOccupancies(admin_resp.id) = {}
    /\ \A e \in occupancies : \E b \in bookings : b.id = e.booking_id

\* ---------------------------------------------------------------- C22
\* An update_booking call that writes update u to the stored booking id and
\* answers 200.
UpdateTo(id, u) ==
    /\ UpdateBooking(id)
    /\ bookings' = {IF b.id = id THEN set(b, u) ELSE b : b \in bookings}
    /\ admin_resp' = Response("update", id, 200, 0)

\* Two stored non-cancelled bookings that share a resource and a night.
Overlapping(b1, b2) ==
    /\ b1.id # b2.id
    /\ b1.status # "cancelled" /\ b2.status # "cancelled"
    /\ SharesResource(b1, b2)
    /\ NightSet(b1) \cap NightSet(b2) # {}

\* C22 (state part): update_booking re-checks nothing: every update of dates
\* or resources of a stored booking is accepted, whatever the other bookings
\* and the occupancy records say.
C22_NoRecheckState ==
    \A b \in bookings, u \in UpdateInputs :
        calls < MaxCalls => ENABLED UpdateTo(b.id, u)

\* C22 (step part): an update_booking call leaves the occupancy records
\* untouched and changes the addressed booking only.
C22_UpdateStep ==
    (calls' = calls + 1 /\ del_pc' = del_pc /\ admin_resp'.op = "update") =>
        /\ occupancies' = occupancies
        /\ \A b \in bookings : b.id # admin_resp'.id => b \in bookings'
        /\ admin_resp'.status = 200 =>
              \E u \in UpdateInputs :
                  bookings' = {IF b.id = admin_resp'.id THEN set(b, u) ELSE b :
                                  b \in bookings}

\* C22: update_booking writes changed dates or resources without re-checking
\* overlap or capacity and without touching occupancy records, so two
\* non-cancelled bookings of one resource with overlapping night-sets and a
\* ledger that no longer matches the bookings are reachable.
C22_UpdateUnchecked == [](C22_NoRecheckState) /\ [][C22_UpdateStep]_vars

\* Bookings A and B were created on disjoint nights, B's dates were updated
\* onto A's: both are stored, they overlap, and B's occupancy records are
\* still those of its old nights.
C22_Witness ==
    /\ admin_resp.op = "update" /\ admin_resp.status = 200
    /\ \E b1 \in bookings, b2 \in bookings :
        /\ Overlapping(b1, b2)
        /\ b2.id = admin_resp.id
        /\ {e.date[2] : e \in OwnedOccupancies(b1.id)} = NightSet(b1)
        /\ {e.date[2] : e \in OwnedOccupancies(b2.id)} # NightSet(b2)
        /\ {e.date[2] : e \in OwnedOccupancies(b1.id)}
             \cap {e.date[2] : e \in OwnedOccupancies(b2.id)} = {}

\* ---------------------------------------------------------------- C23
\* No other request that has arrived asks for a resource of request r.
AloneOnResources(r) ==
    \A o \in Reqs \ {r} : ~SharesResource(req[r], req[o])

\* C23: there is no global lock.  A valid request whose resources no other
\* request asks for is never held up or rejected by the others: its
\* transaction can commit, its key is free when it acquires, its overlap
\* re-check finds nothing, its occupancy inserts are accepted, and it
\* returns its created booking; so concurrent valid requests for different
\* unbooked resources all succeed in every interleaving.
C23_NoGlobalLock ==
    \A r \in Reqs :
        (Valid(r) /\ AloneOnResources(r)) =>
            /\ pc[r] = "txn" => ENABLED TxnCommit(r)
            /\ pc[r] = "acquire" => (~HeldLive(lock_key(r)) /\ ENABLED Acquire(r))
            /\ pc[r] = "overlap" => ~overlap(r)
            /\ pc[r] = "insert_occ" => ENABLED InsertOcc(r)
            /\ pc[r] # "rollback"
            /\ resp[r] \in {"none", "created"}
            /\ Done(r) => Created(r)

\* Two requests for different resources and the same nights are in their
\* critical sections at the same time, each the live holder of its own key.
C23_Witness ==
    \E r1 \in Reqs, r2 \in Reqs :
        /\ r1 # r2
        /\ Valid(r1) /\ Valid(r2)
        /\ ~SharesResource(req[r1], req[r2])
        /\ NightSet(req[r1]) = NightSet(req[r2])
        /\ InSection(r1) /\ HoldsLive(r1)
        /\ InSection(r2) /\ HoldsLive(r2)

\* ---------------------------------------------------------------- C24
\* The booking of request o is stored with status cancelled.
Cancelled(o) == \E b \in bookings : b.id = o /\ b.status = "cancelled"

\* Request o asks for a resource and a night of request r and its booking is
\* not a cancelled one.
LiveRival(r, o) ==
    /\ o # r
    /\ SharesResource(req[r], req[o])
    /\ NightSet(req[r]) \cap NightSet(req[o]) # {}
    /\ ~Cancelled(o)

\* C24: a cancelled booking never blocks a new reservation: a valid request
\* is turned down by the overlap re-check, or has an occupancy insert refused
\* by the unique index (in the transaction or under the lock), only when a
\* request whose booking is not cancelled has asked for one of its
\* (resource, night) pairs.
C24_RejectStep ==
    \A r \in Reqs :
        (\/ pc[r] = "overlap" /\ resp'[r] = "conflict"
         \/ pc[r] = "insert_occ" /\ pc'[r] = "rollback"
         \/ pc[r] = "txn" /\ txn_exc'[r] = "BulkWriteError")
            => \E o \in Reqs : LiveRival(r, o)

C24_CancelledNeverBlocks == [][C24_RejectStep]_vars

\* ---------------------------------------------------------------- C25
\* C25 (state part): what acquire answers depends on the live records only:
\* a waiting request can take its key exactly when no unexpired record of
\* the key exists, whether or not an expired one is still stored.
C25_ExpiredIsFreeState ==
    \A r \in Reqs :
        pc[r] = "acquire" => (ENABLED Acquire(r) <=> ~HeldLive(lock_key(r)))

\* C25 (step part): the startup sweep deletes exactly the records whose
\* expiry has passed and leaves every unexpired record as it is; no key is
\* held by a live owner before and not after (or the reverse), and a later
\* acquire leaves the same live records with or without the sweep.
C25_SweepStep ==
    Sweep =>
        /\ locks' = {l \in locks : Live(l)}
        /\ \A r \in Reqs :
            /\ HeldLive(lock_key(r))' <=> HeldLive(lock_key(r))
            /\ {l \in acquire_lock(lock_key(r), uuid4(r), TTL_SECONDS)' : Live(l)}
                 = {l \in acquire_lock(lock_key(r), uuid4(r), TTL_SECONDS) : Live(l)}

\* C25: the startup sweep removes expired lock records only and, run,
\* skipped or failed, does not change the outcome of a later acquire.
C25_SweepIsAdvisory == [](C25_ExpiredIsFreeState) /\ [][C25_SweepStep]_vars

\* A holder stalled past its TTL, no other request has arrived, and the record
\* of its key is gone: the sweep has deleted it.
C25_Witness ==
    \E r \in Reqs :
        /\ InSection(r) /\ lock_owner[r] = uuid4(r)
        /\ \A l \in locks : l.key # lock_key(r)
        /\ \A o \in Reqs \ {r} : pc[o] = "idle"

\* ---------------------------------------------------------------- C26
\* C26: each request leaves at most one booking record; it returns a created
\* booking only if that record and all its per-night occupancy records are
\* stored; and a request that is answered ConflictError (overlap, ledger
\* conflict or busy lock) leaves no booking of its own in the store, also
\* when its transaction had committed before reporting an error.
C26_OneBookingOrNone ==
    \A r \in Reqs :
        /\ Cardinality({b \in bookings : b.id = r}) <= 1
        /\ Created(r) =>
              /\ booking_dict(r) \in bookings
              /\ occ_docs(r) \subseteq occupancies
        /\ (Done(r) /\ status_code(resp[r]) = 409) =>
              \A b \in bookings : b.id # r

====
